---- MODULE Spec2Model ----
(***************************************************************************)
(* A model of two parts of the atc repository:                             *)
(*                                                                         *)
(*  - CommandParser (src/src/assets/scripts/commandParser/CommandParser.js)*)
(*    modelled as the steps of its constructor: the type check, the split  *)
(*    and classification of the line, the token scan that builds the       *)
(*    CommandModel list, the validate/parse loop and the final throw.      *)
(*                                                                         *)
(*  - StandardRouteModel (src/unnamed/part_000) modelled as an object      *)
(*    built from a route definition, with one action per public method.    *)
(*                                                                         *)
(* A raw input line is represented by the sequence of its space-free       *)
(* pieces: String.split(' ') is a bijection between strings and non-empty  *)
(* sequences of strings without a space, an empty piece standing for two   *)
(* consecutive separators (or a leading/trailing one).                     *)
(*                                                                         *)
(* CommandModel, commandMap, REGEX.UNICODE, unicodeToString,               *)
(* RouteSegmentCollection and RouteSegmentModel are imported by the two    *)
(* files but their source is not available; they are modelled from the     *)
(* specification of the repository.                                        *)
(***************************************************************************)
EXTENDS Integers, Sequences, FiniteSets, TLC

VARIABLES
    \* ---- CommandParser ----
    pc,               \* position of the constructor call
    raw,              \* the constructor argument: [kind, toks]
    command,          \* this.command
    callsign,         \* this.callsign
    commandList,      \* this.commandList: sequence of CommandModel records
    segments,         \* the pieces produced by split(' ') (after toLowerCase)
    idx,              \* position of the _map loop of _validateCommandArguments
    validationErrors, \* errors returned so far by the _map callback
    calls,            \* log of validateArgs / parseArgs invocations
    thrown,           \* the value thrown out of the constructor, if any
    held,             \* what the caller of `new CommandParser(..)` holds
    \* ---- StandardRouteModel ----
    standardRoute,    \* the constructor argument (never changed)
    model,            \* the fields of the StandardRouteModel instance
    wasReset,         \* reset() has been called on the instance
    lastCall          \* the last method call and its outcome

parserVars == <<pc, raw, command, callsign, commandList, segments, idx,
                validationErrors, calls, thrown, held>>
routeVars == <<standardRoute, model, wasReset, lastCall>>
vars == <<parserVars, routeVars>>

(***************************************************************************)
(* Bounds                                                                  *)
(***************************************************************************)
MaxTokens == 4

(***************************************************************************)
(* JavaScript values                                                       *)
(***************************************************************************)
UNDEFINED == "<undefined>"
NoError == "<no error>"
NoThrow == [type |-> "none", value |-> ""]
NoObject == [present |-> FALSE, command |-> "", callsign |-> "",
             commandList |-> <<>>]

RECURSIVE SeqFilterNonZero(_)
SeqFilterNonZero(s) ==
    IF s = <<>> THEN <<>>
    ELSE IF Head(s) = 0 THEN SeqFilterNonZero(Tail(s))
         ELSE <<Head(s)>> \o SeqFilterNonZero(Tail(s))

(***************************************************************************)
(* The command table (commandMap.js)                                       *)
(***************************************************************************)
COMMAND_ARGS_SEPARATOR == " "

SYSTEM_COMMANDS == [timewarp |-> "timewarp", transmit |-> "transmit"]

ArrowLeft == "<U+2BA2>"
ArrowLeftEscape == "\\u2BA2"

COMMAND_MAP_KEYS == {"fh", "heading", "to", ArrowLeftEscape}

COMMAND_MAP(alias) ==
    CASE alias = "fh" -> "heading"
      [] alias = "heading" -> "heading"
      [] alias = ArrowLeftEscape -> "heading"
      [] alias = "to" -> "takeoff"
      [] OTHER -> UNDEFINED

\* REGEX.UNICODE.test(token)
IsUnicode(token) == token = ArrowLeft

\* unicodeToString(token)
unicodeToString(token) ==
    IF token = ArrowLeft THEN ArrowLeftEscape ELSE token

\* _has(object, key) for the two tables
HasSystemCommand(key) == key \in DOMAIN SYSTEM_COMMANDS
HasCommand(key) == key \in COMMAND_MAP_KEYS

(***************************************************************************)
(* Input lines                                                             *)
(***************************************************************************)
Tokens == {"", "aa777", "270", "fh", "FH", "to", ArrowLeft, "timewarp",
           "transmit"}

toLowerCase(token) == IF token = "FH" THEN "fh" ELSE token

Lines == UNION {[1..n -> Tokens] : n \in 1..MaxTokens}

\* what a caller may pass to the constructor
Inputs ==
    {[kind |-> "string", toks |-> l] : l \in Lines}
    \cup {[kind |-> k, toks |-> <<>>] :
            k \in {"number", "object", "null", "undefined"}}

(***************************************************************************)
(* CommandModel (CommandModel.js)                                          *)
(***************************************************************************)
\* new CommandModel(name): a canonical name, raw arguments, parsed arguments
CommandModel(name) ==
    [name |-> name, args |-> <<>>, parsedArgs |-> <<>>, isParsed |-> FALSE]

IsNumber(arg) == arg = "270"

\* CommandModel.validateArgs(): an error descriptor, or nothing
\* (takeoff takes no argument; heading and timewarp take one number)
validateArgs(cmd) ==
    IF cmd.name = "takeoff"
    THEN IF Len(cmd.args) # 0 THEN cmd.name \o ": argument count" ELSE NoError
    ELSE IF Len(cmd.args) # 1 THEN cmd.name \o ": argument count"
    ELSE IF ~IsNumber(cmd.args[1]) THEN cmd.name \o ": argument type"
    ELSE NoError

\* CommandModel.parseArgs(): raw string arguments to typed values
parseArgs(cmd) ==
    [cmd EXCEPT !.parsedArgs = [i \in 1..Len(cmd.args) |-> <<"number", cmd.args[i]>>],
                !.isParsed = TRUE]

(***************************************************************************)
(* CommandParser                                                           *)
(***************************************************************************)
\* _isString(rawCommandWithArgs), after the default parameter was applied
IsStringMutant(value) == TRUE
IsString(value) == value.kind = "string"

\* constructor(rawCommandWithArgs = ''): undefined takes the default ''
DefaultParameter(value) ==
    IF value.kind = "undefined" THEN [kind |-> "string", toks |-> <<"">>]
    ELSE value

\* rawCommandWithArgs.toLowerCase().split(COMMAND_ARGS_SEPARATOR)
Split(value) == [i \in 1..Len(value.toks) |-> toLowerCase(value.toks[i])]

\* _tail(array)
Tail_(s) == IF s = <<>> THEN <<>> ELSE Tail(s)

\* _isSystemCommand(callsignOrSystemCommandName)
IsSystemCommandMutant(name) == HasSystemCommand(name)
IsSystemCommand(name) ==
    HasSystemCommand(name) /\ name # SYSTEM_COMMANDS.transmit

\* _buildSystemCommandModel: the single CommandModel of a system line
SystemArgMutant(commandArgSegments) ==
    [i \in 1..(Len(commandArgSegments) - 1) |-> commandArgSegments[i + 1]]
SystemArg(commandArgSegments) ==
    <<IF Len(commandArgSegments) >= 2 THEN commandArgSegments[2] ELSE UNDEFINED>>

BuildSystemCommandModel(commandArgSegments) ==
    [CommandModel(commandArgSegments[1])
        EXCEPT !.args = SystemArg(commandArgSegments)]

\* One pass of the _map callback of _buildCommandList over `commandOrArg`.
\* st.models : the CommandModel objects created so far
\* st.out    : what the callback returned per token: the index of the object
\*             returned, or 0 for undefined
\* st.cur    : the object `commandModel` refers to (0: still undefined)
\* st.err    : the callback threw (commandModel.args of undefined)
ScanStepMutant(st, commandOrArg) ==
    IF st.err THEN st
    ELSE IF commandOrArg = "" THEN [st EXCEPT !.out = Append(@, 0)]
    ELSE IF IsUnicode(commandOrArg) \/ HasCommand(commandOrArg) THEN
        [st EXCEPT !.models = Append(@, CommandModel(
                                 COMMAND_MAP(unicodeToString(commandOrArg)))),
                   !.out = Append(@, Len(st.models) + 1),
                   !.cur = Len(st.models) + 1]
    ELSE IF st.cur = 0 THEN [st EXCEPT !.err = TRUE]
    ELSE [st EXCEPT !.models[1].args = Append(@, commandOrArg),
                    !.out = Append(@, 0)]
\* (the unicode branch without the decoding step)
ScanStepNoDecode(st, commandOrArg) ==
    IF st.err THEN st
    ELSE IF commandOrArg = "" THEN [st EXCEPT !.out = Append(@, 0)]
    ELSE IF IsUnicode(commandOrArg) \/ HasCommand(commandOrArg) THEN
        [st EXCEPT !.models = Append(@, CommandModel(COMMAND_MAP(commandOrArg))),
                   !.out = Append(@, Len(st.models) + 1),
                   !.cur = Len(st.models) + 1]
    ELSE IF st.cur = 0 THEN [st EXCEPT !.err = TRUE]
    ELSE [st EXCEPT !.models[st.cur].args = Append(@, commandOrArg),
                    !.out = Append(@, 0)]
\* (an argument met before any command is dropped instead of dereferencing
\* the undefined commandModel)
ScanStepGuarded(st, commandOrArg) ==
    IF st.err THEN st
    ELSE IF commandOrArg = "" THEN [st EXCEPT !.out = Append(@, 0)]
    ELSE IF IsUnicode(commandOrArg) \/ HasCommand(commandOrArg) THEN
        [st EXCEPT !.models = Append(@, CommandModel(
                                 COMMAND_MAP(unicodeToString(commandOrArg)))),
                   !.out = Append(@, Len(st.models) + 1),
                   !.cur = Len(st.models) + 1]
    ELSE IF st.cur = 0 THEN [st EXCEPT !.out = Append(@, 0)]
    ELSE [st EXCEPT !.models[st.cur].args = Append(@, commandOrArg),
                    !.out = Append(@, 0)]
ScanStep(st, commandOrArg) ==
    IF st.err THEN st
    ELSE IF commandOrArg = "" THEN [st EXCEPT !.out = Append(@, 0)]
    ELSE IF IsUnicode(commandOrArg) THEN
        [st EXCEPT !.models = Append(@, CommandModel(
                                 COMMAND_MAP(unicodeToString(commandOrArg)))),
                   !.out = Append(@, Len(st.models) + 1),
                   !.cur = Len(st.models) + 1]
    ELSE IF HasCommand(commandOrArg) THEN
        [st EXCEPT !.models = Append(@, CommandModel(COMMAND_MAP(commandOrArg))),
                   !.out = Append(@, Len(st.models) + 1),
                   !.cur = Len(st.models) + 1]
    ELSE IF st.cur = 0 THEN [st EXCEPT !.err = TRUE]
    ELSE [st EXCEPT !.models[st.cur].args = Append(@, commandOrArg),
                    !.out = Append(@, 0)]

RECURSIVE ScanFrom(_, _)
ScanFrom(st, commandArgSegments) ==
    IF commandArgSegments = <<>> THEN st
    ELSE ScanFrom(ScanStep(st, Head(commandArgSegments)),
                  Tail(commandArgSegments))

\* _buildCommandList(commandArgSegments): [err, list]
BuildCommandList(commandArgSegments) ==
    LET st == ScanFrom([models |-> <<>>, out |-> <<>>, cur |-> 0,
                        err |-> FALSE], commandArgSegments)
        kept == SeqFilterNonZero(st.out)
    IN  [err |-> st.err,
         list |-> IF st.err THEN <<>>
                  ELSE [i \in 1..Len(kept) |-> st.models[kept[i]]]]

TypeErrorNotString == [type |-> "TypeError", value |-> "expects a string"]
TypeErrorUndefinedArgs ==
    [type |-> "TypeError", value |-> "args of undefined"]
ValidationThrow(error) == [type |-> "validation", value |-> error]

\* _validateAndParseCommandArguments: `validationErrors.length > 0`
HasErrorsMutant(errors) == FALSE
HasErrors(errors) == Len(errors) > 0

\* the callback of _validateCommandArguments on one CommandModel, given the
\* result of its validateArgs(): parse unless there is an error
ValidateOrParseMutant(cmd, hasError) == parseArgs(cmd)
ValidateOrParse(cmd, hasError) ==
    IF hasError # NoError THEN cmd ELSE parseArgs(cmd)

\* _map(this.commandList, ..) has visited every element: it ends at the end
\* of the list, whatever the callback returned
MapDoneMutant(i, list, errors) == i > Len(list) \/ errors # <<>>
MapDone(i, list, errors) == i > Len(list)

\* the calls that callback makes on record i
CallsOf(i, hasError) ==
    IF hasError # NoError THEN <<<<"validateArgs", i>>>>
    ELSE <<<<"validateArgs", i>>, <<"parseArgs", i>>>>

ParserInit ==
    /\ pc = "idle"
    /\ raw = [kind |-> "undefined", toks |-> <<>>]
    /\ command = ""
    /\ callsign = ""
    /\ commandList = <<>>
    /\ segments = <<>>
    /\ idx = 0
    /\ validationErrors = <<>>
    /\ calls = <<>>
    /\ thrown = NoThrow
    /\ held = NoObject

\* `new CommandParser(input)`: the type check and the field defaults
Construct(input) ==
    /\ pc = "idle"
    /\ raw' = input
    /\ IF ~IsString(DefaultParameter(input))
       THEN /\ thrown' = TypeErrorNotString
            /\ pc' = "failed"
            /\ UNCHANGED <<command, callsign, commandList>>
       ELSE /\ command' = ""
            /\ callsign' = ""
            /\ commandList' = <<>>
            /\ pc' = "extract"
            /\ UNCHANGED thrown
    /\ UNCHANGED <<segments, idx, validationErrors, calls, held>>
    /\ UNCHANGED routeVars

\* _extractCommandsAndArgs on a system line: _buildSystemCommandModel
ExtractSystem ==
    /\ pc = "extract"
    /\ LET split == Split(DefaultParameter(raw))
       IN  /\ IsSystemCommand(split[1])
           /\ segments' = split
           /\ command' = split[1]
           /\ commandList' = Append(commandList, BuildSystemCommandModel(split))
    /\ pc' = "validate"
    /\ idx' = 1
    /\ UNCHANGED <<raw, callsign, validationErrors, calls, thrown, held>>
    /\ UNCHANGED routeVars

\* _extractCommandsAndArgs on any other line: _buildTransmitCommandModels
ExtractTransmit ==
    /\ pc = "extract"
    /\ LET split == Split(DefaultParameter(raw))
           built == BuildCommandList(Tail_(split))
       IN  /\ ~IsSystemCommand(split[1])
           /\ segments' = split
           /\ command' = SYSTEM_COMMANDS.transmit
           /\ callsign' = split[1]
           /\ IF built.err
              THEN /\ thrown' = TypeErrorUndefinedArgs
                   /\ pc' = "failed"
                   /\ UNCHANGED <<commandList, idx>>
              ELSE /\ commandList' = built.list
                   /\ pc' = "validate"
                   /\ idx' = 1
                   /\ UNCHANGED thrown
    /\ UNCHANGED <<raw, validationErrors, calls, held>>
    /\ UNCHANGED routeVars

\* one iteration of the _map of _validateCommandArguments
ValidateStep ==
    /\ pc = "validate"
    /\ ~MapDone(idx, commandList, validationErrors)
    /\ LET hasError == validateArgs(commandList[idx])
       IN  /\ commandList' = [commandList EXCEPT
                                ![idx] = ValidateOrParse(@, hasError)]
           /\ validationErrors' =
                IF hasError # NoError THEN Append(validationErrors, hasError)
                ELSE validationErrors
           /\ calls' = calls \o CallsOf(idx, hasError)
    /\ idx' = idx + 1
    /\ UNCHANGED <<pc, raw, command, callsign, segments, thrown, held>>
    /\ UNCHANGED routeVars

\* the end of _validateAndParseCommandArguments and of the constructor:
\* _forEach(validationErrors, (error) => { throw error; }) leaves at the
\* first element
Finish ==
    /\ pc = "validate"
    /\ MapDone(idx, commandList, validationErrors)
    /\ IF HasErrors(validationErrors)
       THEN /\ thrown' = ValidationThrow(validationErrors[1])
            /\ pc' = "failed"
            /\ UNCHANGED held
       ELSE /\ pc' = "done"
            /\ held' = [present |-> TRUE, command |-> command,
                        callsign |-> callsign, commandList |-> commandList]
            /\ UNCHANGED thrown
    /\ UNCHANGED <<raw, command, callsign, commandList, segments, idx,
                   validationErrors, calls>>
    /\ UNCHANGED routeVars


(***************************************************************************)
(* Route definitions (the objects handed to `new StandardRouteModel`)      *)
(*                                                                         *)
(* An object keyed by segment name is a sequence of [name, fixes] in key   *)
(* order; an optional property is [defined, segs] (or [defined, fixes]).   *)
(***************************************************************************)
Fix(name, restriction) == [name |-> name, restriction |-> restriction]

Absent == [defined |-> FALSE, segs |-> <<>>]
EmptyObject == [defined |-> TRUE, segs |-> <<>>]
Object(segs) == [defined |-> TRUE, segs |-> segs]

NoBody == [defined |-> FALSE, fixes |-> <<>>]
Body(fixes) == [defined |-> TRUE, fixes |-> fixes]

RwyData ==
    <<[name |-> "01L", fixes |-> <<Fix("A", ""), Fix("B", "A90")>>],
      [name |-> "19R", fixes |-> <<Fix("E", "")>>]>>
ExitData == <<[name |-> "X", fixes |-> <<Fix("D", "A210+")>>]>>
EntryData == <<[name |-> "N", fixes |-> <<Fix("G", ""), Fix("H", "")>>]>>
BodyData == <<Fix("C", "A140+")>>

StandardRoutes ==
    [icao : {"SHEAD9"}, name : {"Shead Nine"}, draw : {<<<<"A", "C">>>>},
     rwy : {Absent, EmptyObject, Object(RwyData)},
     body : {NoBody, Body(<<>>), Body(BodyData)},
     exitPoints : {Absent, EmptyObject, Object(ExitData)},
     entryPoints : {Absent, EmptyObject, Object(EntryData)}]

\* segment names a caller may ask for
Names == {"", "01L", "01l", "X", "N", "ZZ"}

\* names a caller may ask hasFixName for: the segment names, a fix of the
\* body ("C") and a fix inside a runway segment ("A")
FixNamesAsked == Names \cup {"A", "C"}

toUpperCase(name) == IF name = "01l" THEN "01L" ELSE name

(***************************************************************************)
(* RouteSegmentModel and RouteSegmentCollection                            *)
(***************************************************************************)
Null == [isNull |-> TRUE, name |-> "", items |-> <<>>]

\* the 2-D coordinate of a fix, resolved from its name
Position(name) ==
    CASE name = "A" -> <<0, 0>>
      [] name = "B" -> <<3, 4>>
      [] name = "C" -> <<6, 0>>
      [] name = "D" -> <<6, 8>>
      [] name = "E" -> <<0, 8>>
      [] name = "G" -> <<12, 8>>
      [] name = "H" -> <<9, 4>>
      [] OTHER -> <<1, 1>>

\* the largest integer whose square is at most n
Isqrt(n) == CHOOSE r \in 0..n : r * r <= n /\ (r + 1) * (r + 1) > n

\* distance2d(a, b): the planar distance between two positions, in whole
\* kilometres
distance2d(a, b) ==
    Isqrt((a[1] - b[1]) * (a[1] - b[1]) + (a[2] - b[2]) * (a[2] - b[2]))

\* nm(kilometres): kilometres to nautical miles, kept in hundredths
nm(kilometres) == kilometres * 54

\* the annotations of a waypoint that no pre-spawn pass has visited
Unpopulated ==
    [distanceFromPreviousWaypoint |-> -1, previousStandardWaypointName |-> ""]

\* new StandardRouteWaypointModel(fix)
WaypointModel(fix) ==
    [name |-> fix.name, restriction |-> fix.restriction,
     position |-> Position(fix.name),
     distanceFromPreviousWaypoint |-> Unpopulated.distanceFromPreviousWaypoint,
     previousStandardWaypointName |-> Unpopulated.previousStandardWaypointName]

\* new RouteSegmentModel(name, segmentFixList)
RouteSegmentModel(name, fixes) ==
    [isNull |-> FALSE, name |-> name,
     items |-> [i \in 1..Len(fixes) |-> WaypointModel(fixes[i])]]

\* RouteSegmentModel.findWaypointsForSegment(): the [name, restriction] pairs
findWaypointsForSegment(segment) ==
    [i \in 1..Len(segment.items) |->
        Fix(segment.items[i].name, segment.items[i].restriction)]

\* new RouteSegmentCollection(segment)
RouteSegmentCollection(segs) ==
    [isNull |-> FALSE, name |-> "",
     items |-> [i \in 1..Len(segs) |->
                  RouteSegmentModel(segs[i].name, segs[i].fixes)]]

\* RouteSegmentCollection.findSegmentByName(name): the position of the
\* segment in the collection, 0 when there is none (the nil result)
findSegmentByName(collection, segmentName) ==
    LET hits == {i \in 1..Len(collection.items) :
                    collection.items[i].name = toUpperCase(segmentName)}
    IN  IF hits = {} THEN 0
        ELSE CHOOSE i \in hits : \A j \in hits : i <= j

\* RouteSegmentCollection.findWaypointsForSegmentName(name)
findWaypointsForSegmentName(collection, segmentName) ==
    LET i == findSegmentByName(collection, segmentName)
    IN  IF i = 0 THEN <<>> ELSE findWaypointsForSegment(collection.items[i])

\* _compact(list): drops the falsy elements
Compact(list) == SelectSeq(list, LAMBDA x : x.name # UNDEFINED)

(***************************************************************************)
(* StandardRouteModel                                                      *)
(***************************************************************************)
\* _buildSegmentModel(segmentFixList)
BuildSegmentModel(body) == RouteSegmentModel("body", body.fixes)

\* _buildSegmentCollection(segment)
BuildSegmentCollectionMutant(segment) ==
    IF ~segment.defined THEN Null
    ELSE RouteSegmentCollection(segment.segs)
BuildSegmentCollection(segment) ==
    IF ~segment.defined \/ segment.segs = <<>> THEN Null
    ELSE RouteSegmentCollection(segment.segs)

\* _buildEntryAndExitCollections(standardRoute): [entry, exit]
BuildEntryAndExitCollections(route) ==
    IF route.entryPoints.defined
    THEN [entry |-> BuildSegmentCollection(route.entryPoints),
          exit |-> BuildSegmentCollection(route.rwy)]
    ELSE IF route.exitPoints.defined
    THEN [entry |-> BuildSegmentCollection(route.rwy),
          exit |-> BuildSegmentCollection(route.exitPoints)]
    ELSE [entry |-> Null, exit |-> Null]

\* _get(standardRoute, key, {})
GetOrEmptyObject(property) == IF property.defined THEN property ELSE EmptyObject

\* constructor and _init(standardRoute)
NewStandardRouteModel(route) ==
    [icao |-> route.icao,
     name |-> route.name,
     draw |-> route.draw,
     rwy |-> route.rwy,
     body |-> route.body,
     exitPoints |-> GetOrEmptyObject(route.exitPoints),
     entryPoints |-> GetOrEmptyObject(route.entryPoints),
     bodySegmentModel |-> BuildSegmentModel(route.body),
     entryCollection |-> BuildEntryAndExitCollections(route).entry,
     exitCollection |-> BuildEntryAndExitCollections(route).exit]

\* reset()
ResetModel(m) ==
    [m EXCEPT !.icao = "", !.name = "", !.rwy = EmptyObject,
              !.body = Body(<<>>), !.exitPoints = EmptyObject, !.draw = <<>>,
              !.bodySegmentModel = Null, !.exitCollection = Null,
              !.entryCollection = Null]

Ok(value) == [outcome |-> "ok", value |-> value]
TypeError == [outcome |-> "TypeError", value |-> <<>>]

\* _generateFixList(entrySegment, bodySegment, exitSegment)
GenerateFixListMutant(entrySegment, bodySegment, exitSegment) ==
    Compact(bodySegment \o entrySegment \o exitSegment)
GenerateFixList(entrySegment, bodySegment, exitSegment) ==
    Compact(entrySegment \o bodySegment \o exitSegment)

\* _findFixListInByCollectionAndSegmentName(originalCollectionName,
\*                                          collectionName, segmentName)
FindFixListInByCollectionAndSegmentName(original, collection, segmentName) ==
    IF ~original.defined \/ collection.isNull \/ segmentName = ""
    THEN <<>>
    ELSE findWaypointsForSegmentName(collection, segmentName)

\* _findBodyFixList()
FindBodyFixList(m) ==
    IF ~m.body.defined \/ Len(m.body.fixes) = 0 THEN <<>>
    ELSE findWaypointsForSegment(m.bodySegmentModel)

\* _findFixListForSidByRunwayAndExit(runwayName, exitFixName)
FindFixListForSidByRunwayAndExit(m, runwayName, exitFixName) ==
    GenerateFixList(
        FindFixListInByCollectionAndSegmentName(m.rwy, m.entryCollection,
                                                runwayName),
        FindBodyFixList(m),
        FindFixListInByCollectionAndSegmentName(m.exitPoints, m.exitCollection,
                                                exitFixName))

\* _findFixListForStarByEntryAndRunway(entryFixName, runwayName)
FindFixListForStarByEntryAndRunway(m, entryFixName, runwayName) ==
    GenerateFixList(
        FindFixListInByCollectionAndSegmentName(m.entryPoints,
                                                m.entryCollection, entryFixName),
        FindBodyFixList(m),
        FindFixListInByCollectionAndSegmentName(m.rwy, m.exitCollection,
                                                runwayName))

\* `collection.findSegmentByName(name).items` of
\* _findStandardWaypointModelsForRoute: reading .items of the nil result of
\* a miss is a TypeError
SegmentItems(collection, segmentName) ==
    IF collection.isNull THEN Ok(<<>>)
    ELSE IF findSegmentByName(collection, segmentName) = 0 THEN TypeError
    ELSE Ok(collection.items[findSegmentByName(collection, segmentName)].items)

\* _findStandardWaypointModelsForRoute(entry, exit)
FindStandardWaypointModelsForRoute(m, entry, exit) ==
    LET entrySegmentItems == SegmentItems(m.entryCollection, entry)
        exitSegmentItems == SegmentItems(m.exitCollection, exit)
    IN  IF entrySegmentItems.outcome # "ok" THEN TypeError
        ELSE IF exitSegmentItems.outcome # "ok" THEN TypeError
        ELSE IF m.bodySegmentModel.isNull THEN TypeError
        ELSE Ok(GenerateFixList(entrySegmentItems.value,
                                m.bodySegmentModel.items,
                                exitSegmentItems.value))

\* calculateDistanceBetweenWaypoints(waypoint, previousWaypoint)
calculateDistanceBetweenWaypoints(waypoint, previousWaypoint) ==
    nm(distance2d(previousWaypoint, waypoint))

\* the waypoint the callback of _updateWaypointsWithPreviousWaypointData
\* measures from: waypointModelList[i - 1], the waypoint itself at the head
PreviousWaypointMutant(list, i) == list[i]
PreviousWaypoint(list, i) == IF i = 1 THEN list[i] ELSE list[i - 1]

\* the two assignments of that callback
AnnotateMutant(waypoint, previousWaypoint) ==
    [waypoint EXCEPT
        !.distanceFromPreviousWaypoint =
            calculateDistanceBetweenWaypoints(waypoint.position,
                                              previousWaypoint.position)]
Annotate(waypoint, previousWaypoint) ==
    [waypoint EXCEPT
        !.distanceFromPreviousWaypoint =
            calculateDistanceBetweenWaypoints(waypoint.position,
                                              previousWaypoint.position),
        !.previousStandardWaypointName = previousWaypoint.name]

\* _updateWaypointsWithPreviousWaypointData(waypointModelList): the list
\* with every waypoint as the loop leaves it
UpdateWaypointsWithPreviousWaypointData(list) ==
    [i \in 1..Len(list) |-> Annotate(list[i], PreviousWaypoint(list, i))]

\* the segment of a collection whose items went into the waypoint list
SegmentUsed(collection, segmentName) ==
    IF collection.isNull THEN 0 ELSE findSegmentByName(collection, segmentName)

ItemsUsed(collection, segmentName) ==
    IF SegmentUsed(collection, segmentName) = 0 THEN 0
    ELSE Len(collection.items[SegmentUsed(collection, segmentName)].items)

WithItems(collection, segmentName, items) ==
    IF SegmentUsed(collection, segmentName) = 0 THEN collection
    ELSE [collection EXCEPT
            !.items[SegmentUsed(collection, segmentName)].items = items]

\* the waypoints of the list are the objects the segments hold (the list is
\* built from the `items` arrays themselves), so what the loop assigns is
\* seen through the entry segment, the body segment and the exit segment
WaypointsSeenThroughSegments(m, entry, exit, list) ==
    LET ne == ItemsUsed(m.entryCollection, entry)
        nb == Len(m.bodySegmentModel.items)
    IN  [m EXCEPT
            !.entryCollection = WithItems(@, entry, SubSeq(list, 1, ne)),
            !.bodySegmentModel.items = SubSeq(list, ne + 1, ne + nb),
            !.exitCollection =
                WithItems(@, exit, SubSeq(list, ne + nb + 1, Len(list)))]

\* `if (isPreSpawn)`
IsPreSpawnMutant(isPreSpawn) == TRUE
IsPreSpawn(isPreSpawn) == isPreSpawn

\* hasExitPoints()
hasExitPoints(m) ==
    ~m.exitCollection.isNull /\ Len(m.exitCollection.items) > 0

RECURSIVE FixNamesFrom(_, _)
FixNamesFrom(segments_, i) ==
    IF i > Len(segments_) THEN <<>>
    ELSE [j \in 1..Len(segments_[i].items) |-> segments_[i].items[j].name]
            \o FixNamesFrom(segments_, i + 1)

\* RouteSegmentCollection.gatherFixNamesForCollection(): the fix names across
\* every segment, in order
gatherFixNamesForCollection(collection) == FixNamesFrom(collection.items, 1)

\* gatherExitPointNames()
gatherExitPointNames(m) ==
    IF ~hasExitPoints(m) THEN <<>>
    ELSE gatherFixNamesForCollection(m.exitCollection)

\* hasFixName(fixName), as the condition a caller tests
hasFixNameMutant(m, fixName) ==
    \/ ~m.entryCollection.isNull
          /\ findSegmentByName(m.entryCollection, fixName) # 0
    \/ ~m.exitCollection.isNull
          /\ findSegmentByName(m.exitCollection, fixName) # 0
    \/ \E i \in 1..Len(m.bodySegmentModel.items) :
          m.bodySegmentModel.items[i].name = fixName
hasFixName(m, fixName) ==
    \/ ~m.entryCollection.isNull
          /\ findSegmentByName(m.entryCollection, fixName) # 0
    \/ ~m.exitCollection.isNull
          /\ findSegmentByName(m.exitCollection, fixName) # 0

Call(op, a, b, isPreSpawn, result) ==
    [op |-> op, a |-> a, b |-> b, isPreSpawn |-> isPreSpawn,
     outcome |-> result.outcome, value |-> result.value]

RouteInit ==
    /\ standardRoute \in StandardRoutes
    /\ model = NewStandardRouteModel(standardRoute)
    /\ wasReset = FALSE
    /\ lastCall = Call("new", "", "", FALSE, Ok(<<>>))

\* findFixesAndRestrictionsForRunwayAndExit(runwayName, exitFixName)
FindFixesAndRestrictionsForRunwayAndExit(runwayName, exitFixName) ==
    /\ lastCall' = Call("sid", runwayName, exitFixName, FALSE,
            Ok(FindFixListForSidByRunwayAndExit(model, runwayName, exitFixName)))
    /\ UNCHANGED <<standardRoute, model, wasReset>>
    /\ UNCHANGED parserVars

\* findFixesAndRestrictionsForEntryAndRunway(entryFixName, runwayName)
FindFixesAndRestrictionsForEntryAndRunway(entryFixName, runwayName) ==
    /\ lastCall' = Call("star", entryFixName, runwayName, FALSE,
            Ok(FindFixListForStarByEntryAndRunway(model, entryFixName,
                                                  runwayName)))
    /\ UNCHANGED <<standardRoute, model, wasReset>>
    /\ UNCHANGED parserVars

\* findStandardWaypointModelsForEntryAndExit(entry, exit, isPreSpawn)
FindStandardWaypointModelsForEntryAndExit(entry, exit, isPreSpawn) ==
    /\ LET waypointList == FindStandardWaypointModelsForRoute(model, entry, exit)
           updated == UpdateWaypointsWithPreviousWaypointData(waypointList.value)
       IN  IF waypointList.outcome = "ok" /\ IsPreSpawn(isPreSpawn)
           THEN /\ lastCall' = Call("waypoints", entry, exit, isPreSpawn,
                                    Ok(updated))
                /\ model' = WaypointsSeenThroughSegments(model, entry, exit,
                                                         updated)
           ELSE /\ lastCall' = Call("waypoints", entry, exit, isPreSpawn,
                                    waypointList)
                /\ UNCHANGED model
    /\ UNCHANGED <<standardRoute, wasReset>>
    /\ UNCHANGED parserVars

\* hasFixName(fixName)
HasFixName(fixName) ==
    /\ lastCall' = Call("hasFixName", fixName, "", FALSE,
                        Ok(hasFixName(model, fixName)))
    /\ UNCHANGED <<standardRoute, model, wasReset>>
    /\ UNCHANGED parserVars

\* hasExitPoints()
HasExitPoints ==
    /\ lastCall' = Call("hasExitPoints", "", "", FALSE, Ok(hasExitPoints(model)))
    /\ UNCHANGED <<standardRoute, model, wasReset>>
    /\ UNCHANGED parserVars

\* gatherExitPointNames()
GatherExitPointNames ==
    /\ lastCall' = Call("gatherExitPointNames", "", "", FALSE,
                        Ok(gatherExitPointNames(model)))
    /\ UNCHANGED <<standardRoute, model, wasReset>>
    /\ UNCHANGED parserVars

\* reset()
Reset ==
    /\ model' = ResetModel(model)
    /\ wasReset' = TRUE
    /\ lastCall' = Call("reset", "", "", FALSE, Ok(<<>>))
    /\ UNCHANGED standardRoute
    /\ UNCHANGED parserVars


(***************************************************************************)
(* Specifications                                                          *)
(***************************************************************************)
IdleRoute ==
    [icao |-> "SHEAD9", name |-> "Shead Nine", draw |-> <<<<"A", "C">>>>,
     rwy |-> Object(RwyData), body |-> Body(BodyData),
     exitPoints |-> Object(ExitData), entryPoints |-> Absent]

\* the command interpreter, with one route model standing by
Init ==
    /\ ParserInit
    /\ standardRoute = IdleRoute
    /\ model = NewStandardRouteModel(standardRoute)
    /\ wasReset = FALSE
    /\ lastCall = Call("new", "", "", FALSE, Ok(<<>>))

Next ==
    \/ pc = "idle" /\ \E input \in Inputs : Construct(input)
    \/ ExtractSystem
    \/ ExtractTransmit
    \/ ValidateStep
    \/ Finish

Spec == Init /\ [][Next]_vars

\* the route model, with no line being interpreted
RouteSpecInit == ParserInit /\ RouteInit

RouteSpecNext ==
    \/ \E a, b \in Names : FindFixesAndRestrictionsForRunwayAndExit(a, b)
    \/ \E a, b \in Names : FindFixesAndRestrictionsForEntryAndRunway(a, b)
    \/ \E a, b \in Names, isPreSpawn \in BOOLEAN :
          FindStandardWaypointModelsForEntryAndExit(a, b, isPreSpawn)
    \/ \E fixName \in FixNamesAsked : HasFixName(fixName)
    \/ HasExitPoints
    \/ GatherExitPointNames
    \/ Reset

RouteSpec == RouteSpecInit /\ [][RouteSpecNext]_vars

(***************************************************************************)
(* Properties of the command interpreter (specification Spec)              *)
(***************************************************************************)
\* the line has been split and classified
Classified == segments # <<>>

\* a token of the transmit scan that names a command
Resolvable(token) == IsUnicode(token) \/ token \in COMMAND_MAP_KEYS

Canonical(token) ==
    IF token = ArrowLeft THEN "heading"
    ELSE IF token \in {"fh", "heading"} THEN "heading"
    ELSE "takeoff"

\* the tokens after the aircraft identifier
Scanned == Tail_(segments)

AliasPositions == {i \in 1..Len(Scanned) : Resolvable(Scanned[i])}

\* the position of the k-th alias token
AliasPosition(k) ==
    CHOOSE p \in AliasPositions :
        Cardinality({q \in AliasPositions : q < p}) = k - 1

\* where the group opened by the k-th alias token ends
GroupEnd(k) ==
    IF k = Cardinality(AliasPositions) THEN Len(Scanned)
    ELSE AliasPosition(k + 1) - 1

ArgumentsOfGroup(k) ==
    SelectSeq(SubSeq(Scanned, AliasPosition(k) + 1, GroupEnd(k)),
              LAMBDA token : token # "")

TransmitLineOpenedByCommand ==
    /\ Classified
    /\ command = "transmit"
    /\ Len(Scanned) >= 1
    /\ Resolvable(Scanned[1])

\* C1: in a transmit line whose first token after the aircraft identifier
\* resolves to a command, the scan does not fail and the command list holds
\* exactly one record per alias token, in input order, named by the alias's
\* canonical name; the raw arguments of the k-th record are the non-empty
\* tokens between the k-th alias token and the next one, in order; empty
\* tokens give neither a record nor an argument.
C1_OneRecordPerAliasToken ==
    TransmitLineOpenedByCommand =>
        /\ thrown # TypeErrorUndefinedArgs
        /\ Len(commandList) = Cardinality(AliasPositions)
        /\ \A k \in 1..Len(commandList) :
              /\ commandList[k].name = Canonical(Scanned[AliasPosition(k)])
              /\ commandList[k].args = ArgumentsOfGroup(k)

\* C1 witness: a line with two alias tokens, the first followed by an
\* argument
C1_Witness ==
    /\ TransmitLineOpenedByCommand
    /\ Len(commandList) = 2
    /\ commandList[1].args = <<"270">>
    /\ commandList[2].args = <<>>

\* C2: a system line gives exactly one record, named by the first token,
\* with at most one argument, which is the second token when there is one;
\* name and argument are a function of the first two tokens alone.
C2_SystemLineOneRecord ==
    (Classified /\ command # "transmit") =>
        /\ Len(commandList) = 1
        /\ commandList[1].name = toLowerCase(raw.toks[1])
        /\ Len(commandList[1].args) <= 1
        /\ Len(raw.toks) >= 2 =>
              commandList[1].args = <<toLowerCase(raw.toks[2])>>
        /\ Len(raw.toks) = 1 =>
              \A i \in 1..Len(commandList[1].args) :
                  commandList[1].args[i] = UNDEFINED

\* C2 witness: a completed system line with tokens after the second
C2_Witness ==
    /\ pc = "done"
    /\ command = "timewarp"
    /\ Len(raw.toks) >= 3
    /\ held.commandList[1].args = <<"270">>

SystemAliases == {"timewarp", "transmit"}

\* C3: the line is a system command exactly when its first token is a system
\* alias other than the transmit marker; otherwise the type is transmit and
\* the first token is the aircraft identifier; a system alias that follows
\* the transmit marker never becomes the command of the line or of a record.
C3_SystemExactlyWhenSystemAlias ==
    Classified =>
        LET first == toLowerCase(DefaultParameter(raw).toks[1])
        IN  /\ (command # "transmit") <=>
                   (first \in SystemAliases /\ first # "transmit")
            /\ command # "transmit" => (command = first /\ callsign = "")
            /\ command = "transmit" => callsign = first
            /\ first = "transmit" =>
                  /\ command = "transmit"
                  /\ \A k \in 1..Len(commandList) :
                        commandList[k].name \notin SystemAliases

\* C3 witness: a line that starts with the transmit marker followed by a
\* system alias
C3_Witness ==
    /\ Classified
    /\ Len(segments) >= 2
    /\ segments[1] = "transmit"
    /\ segments[2] = "timewarp"
    /\ command = "transmit"
    /\ callsign = "transmit"

\* C4: when records of the line fail validation, the failure raised carries
\* every accumulated validation error, one per failing record.
C4_RaisedCarriesAllErrors ==
    (pc = "failed" /\ thrown.type = "validation") =>
        <<thrown.value>> = validationErrors

\* C5 as stated: if any record of the line fails validation, no record of
\* the line has been parsed.
C5_NoParseUnlessAllValid ==
    (\E j \in 1..Len(commandList) : validateArgs(commandList[j]) # NoError) =>
        \A i \in 1..Len(commandList) : ~commandList[i].isParsed

\* C5 amended: a record is parsed only right after its own validator
\* passed; a record that failed validation is never parsed; a record that
\* passed is parsed whether or not another record of the line fails.
C5_ParsedOnlyAfterOwnValidation ==
    /\ \A i \in 1..Len(commandList) :
          /\ commandList[i].isParsed => validateArgs(commandList[i]) = NoError
          /\ (pc # "extract" /\ i < idx /\ validateArgs(commandList[i]) = NoError)
                => commandList[i].isParsed
    /\ \A k \in 1..Len(calls) :
          calls[k][1] = "parseArgs" =>
              (k > 1 /\ calls[k - 1] = <<"validateArgs", calls[k][2]>>)

\* C5 witness: one record parsed while another record of the line failed
C5_Witness ==
    /\ validationErrors # <<>>
    /\ \E i \in 1..Len(commandList) : commandList[i].isParsed
    /\ pc = "failed"

\* C6: the caller either holds an interpreter whose every record passed
\* validation and was parsed, or the constructor raised and the caller holds
\* nothing.
C6_AllOrNothing ==
    /\ held.present =>
          /\ pc = "done"
          /\ thrown = NoThrow
          /\ held.commandList = commandList
          /\ \A i \in 1..Len(held.commandList) :
                /\ validateArgs(held.commandList[i]) = NoError
                /\ held.commandList[i].isParsed
    /\ pc = "done" => held.present
    /\ pc = "failed" => (~held.present /\ thrown # NoThrow)
    /\ thrown # NoThrow => pc = "failed"

\* C6 witness: a completed line with two parsed records, one with an
\* argument
C6_Witness ==
    /\ held.present
    /\ Len(held.commandList) = 2
    /\ held.commandList[1].parsedArgs = <<<<"number", "270">>>>

NotTokenized ==
    /\ segments = <<>>
    /\ command = ""
    /\ callsign = ""
    /\ commandList = <<>>
    /\ calls = <<>>
    /\ ~held.present

\* C7 as stated: a number, an object, null or a missing/undefined value
\* fails at once with the construction error, before any tokenizing.
C7_NonStringFails ==
    (pc # "idle" /\ raw.kind # "string") =>
        (pc = "failed" /\ thrown = TypeErrorNotString /\ NotTokenized)

\* C7 amended: a number, an object or null fails at once with the
\* construction error, before any tokenizing; a missing/undefined value
\* takes the default '' and is interpreted as the empty line, which
\* completes as a transmit line with an empty identifier and no records.
C7_NonStringExceptUndefinedFails ==
    /\ (pc # "idle" /\ raw.kind \in {"number", "object", "null"}) =>
          (pc = "failed" /\ thrown = TypeErrorNotString /\ NotTokenized)
    /\ (pc # "idle" /\ raw.kind = "undefined") =>
          /\ pc # "failed"
          /\ thrown = NoThrow
          /\ pc = "done" =>
                (held = [present |-> TRUE, command |-> "transmit",
                         callsign |-> "", commandList |-> <<>>])

\* C7 witness: null was passed and the constructor has thrown
C7_Witness ==
    /\ raw.kind = "null"
    /\ pc = "failed"
    /\ thrown = TypeErrorNotString

(***************************************************************************)
(* Properties of the route model (specification RouteSpec)                 *)
(***************************************************************************)
IsStar(route) == route.entryPoints.defined
IsSid(route) == route.exitPoints.defined /\ ~route.entryPoints.defined

\* the fix list the definition gives for a segment name, [] when it has none
DefinitionFixes(property, segmentName) ==
    LET hits == {i \in 1..Len(property.segs) :
                    property.segs[i].name = toUpperCase(segmentName)}
    IN  IF segmentName = "" \/ hits = {} THEN <<>>
        ELSE property.segs[CHOOSE i \in hits : TRUE].fixes

FixNames(list) == [i \in 1..Len(list) |-> list[i].name]

\* C8: on a model that was not reset, the SID fix list for (runway, exit) is
\* the runway's rwy fixes, then the body fixes, then the exit's exitPoints
\* fixes, and the STAR fix list for (entry, runway) is the entry's
\* entryPoints fixes, then the body fixes, then the runway's rwy fixes, each
\* in source order and nothing else.
C8_FixListIsEntryBodyExit ==
    /\ (~wasReset /\ lastCall.op = "sid" /\ IsSid(standardRoute)) =>
          /\ lastCall.outcome = "ok"
          /\ lastCall.value =
                DefinitionFixes(standardRoute.rwy, lastCall.a)
                \o standardRoute.body.fixes
                \o DefinitionFixes(standardRoute.exitPoints, lastCall.b)
    /\ (~wasReset /\ lastCall.op = "star" /\ IsStar(standardRoute)) =>
          /\ lastCall.outcome = "ok"
          /\ lastCall.value =
                DefinitionFixes(standardRoute.entryPoints, lastCall.a)
                \o standardRoute.body.fixes
                \o DefinitionFixes(standardRoute.rwy, lastCall.b)

\* C8 witness: the SID of the example resolved for runway 01L and exit X
C8_Witness ==
    /\ lastCall.op = "sid"
    /\ IsSid(standardRoute)
    /\ lastCall.a = "01L"
    /\ lastCall.b = "X"
    /\ FixNames(lastCall.value) = <<"A", "B", "C", "D">>

IsResolution(call) == call.op \in {"sid", "star", "waypoints"}

\* what a side that is present gives for a name: the fixes of the matching
\* segment, none when the collection is null or has no such segment
SideNames(collection, segmentName) ==
    IF collection.isNull \/ findSegmentByName(collection, segmentName) = 0
    THEN <<>>
    ELSE FixNames(collection.items[
                     findSegmentByName(collection, segmentName)].items)

\* C9: with the entry or the exit collection null, every resolution returns
\* normally, for any names, the concatenation of the sides that are present.
C9_NullSideNeverThrows ==
    (IsResolution(lastCall)
        /\ (model.entryCollection.isNull \/ model.exitCollection.isNull)) =>
        /\ lastCall.outcome = "ok"
        /\ lastCall.op = "waypoints" =>
              FixNames(lastCall.value) =
                  SideNames(model.entryCollection, lastCall.a)
                  \o FixNames(model.bodySegmentModel.items)
                  \o SideNames(model.exitCollection, lastCall.b)

Missed(collection, segmentName) ==
    ~collection.isNull /\ findSegmentByName(collection, segmentName) = 0

\* C10: a name that is empty or matches no segment of a present collection
\* is not an error: every resolution, waypoint-model resolution included,
\* returns normally.
C10_LookupMissIsNotAnError ==
    (IsResolution(lastCall)
        /\ (Missed(model.entryCollection, lastCall.a)
            \/ Missed(model.exitCollection, lastCall.b))) =>
        lastCall.outcome = "ok"

(***************************************************************************)
(* Further properties of the command interpreter (specification Spec)      *)
(***************************************************************************)
\* the line with every unicode arrow replaced by the textual alias "fh"
TextualAlias(token) == IF token = ArrowLeft THEN "fh" ELSE token

TextualLine == [i \in 1..Len(Scanned) |-> TextualAlias(Scanned[i])]

NamesAndArgs(list) ==
    [i \in 1..Len(list) |-> <<list[i].name, list[i].args>>]

\* C16: in a transmit line, an arrow token opens a record with the same
\* canonical name as the textual alias "fh": the command list of the line
\* (names and raw arguments) is the one of the line written with "fh" in
\* place of every arrow, and the scan fails on one exactly when it fails on
\* the other.
C16_ArrowEqualsTextualAlias ==
    (Classified /\ command = "transmit") =>
        /\ (thrown = TypeErrorUndefinedArgs) <=> BuildCommandList(TextualLine).err
        /\ NamesAndArgs(commandList) =
              NamesAndArgs(BuildCommandList(TextualLine).list)

\* C16 witness: a line with an arrow token followed by an argument
C16_Witness ==
    /\ Classified
    /\ command = "transmit"
    /\ Len(Scanned) >= 2
    /\ Scanned[1] = ArrowLeft
    /\ NamesAndArgs(commandList) = <<<<"heading", <<"270">>>>>>

ValidateCalls == SelectSeq(calls, LAMBDA c : c[1] = "validateArgs")

\* C18: validation does not stop at the first invalid record: while the
\* loop runs the validators of the records before the loop position have
\* each been called once, in list order, and when the constructor is left
\* (normally or by a throw) the validator of every record of the command
\* list has been called exactly once, in list order.
C18_EveryValidatorOnceInOrder ==
    /\ pc = "validate" =>
          ValidateCalls = [i \in 1..(idx - 1) |-> <<"validateArgs", i>>]
    /\ pc \in {"done", "failed"} =>
          ValidateCalls = [i \in 1..Len(commandList) |-> <<"validateArgs", i>>]

\* C18 witness: the first record failed and the second was still validated
C18_Witness ==
    /\ pc = "failed"
    /\ Len(commandList) = 2
    /\ validateArgs(commandList[1]) # NoError
    /\ ValidateCalls = <<<<"validateArgs", 1>>, <<"validateArgs", 2>>>>

NonEmptyPositions == {i \in 1..Len(Scanned) : Scanned[i] # ""}

FirstNonEmpty ==
    Scanned[CHOOSE i \in NonEmptyPositions : \A j \in NonEmptyPositions : i <= j]

\* C19: in a transmit line, when the first non-empty token after the
\* aircraft identifier resolves to no command, the constructor throws during
\* the token scan: no validator or parser has run, there is no command list
\* and the caller holds nothing; when there is no non-empty token after the
\* identifier, the constructor does not throw and completes with an empty
\* command list.
C19_UnresolvedFirstTokenThrows ==
    (Classified /\ command = "transmit") =>
        /\ (NonEmptyPositions # {} /\ ~Resolvable(FirstNonEmpty)) =>
              /\ pc = "failed"
              /\ thrown = TypeErrorUndefinedArgs
              /\ calls = <<>>
              /\ commandList = <<>>
              /\ ~held.present
        /\ NonEmptyPositions = {} =>
              /\ pc # "failed"
              /\ thrown = NoThrow
              /\ commandList = <<>>
              /\ pc = "done" => (held.present /\ held.commandList = <<>>)

\* C19 witness: an empty token, then an argument with no command before it
C19_Witness ==
    /\ Classified
    /\ command = "transmit"
    /\ Len(Scanned) >= 2
    /\ Scanned[1] = ""
    /\ Scanned[2] = "270"
    /\ pc = "failed"
    /\ thrown = TypeErrorUndefinedArgs

(***************************************************************************)
(* Further properties of the route model (specification RouteSpec)         *)
(***************************************************************************)
\* what a collection holds, as [name, fixes] per segment in order
SegmentsOf(collection) ==
    [i \in 1..Len(collection.items) |->
        [name |-> collection.items[i].name,
         fixes |-> findWaypointsForSegment(collection.items[i])]]

\* the collection is the one built from this property of the definition:
\* null when the property is undefined or empty
BuiltFrom(collection, source) ==
    IF ~source.defined \/ source.segs = <<>>
    THEN collection.isNull
    ELSE ~collection.isNull /\ SegmentsOf(collection) = source.segs

C15_ResetClearsAllFields ==
    lastCall.op = "reset" =>
        /\ model.icao = ""
        /\ model.name = ""
        /\ model.rwy.segs = <<>>
        /\ model.body.fixes = <<>>
        /\ model.exitPoints.segs = <<>>
        /\ model.entryPoints.segs = <<>>
        /\ model.draw = <<>>
        /\ model.bodySegmentModel.isNull
        /\ model.entryCollection.isNull
        /\ model.exitCollection.isNull

CollectionSegmentNames(collection) ==
    {collection.items[i].name : i \in 1..Len(collection.items)}

BodyFixNames ==
    {model.bodySegmentModel.items[i].name :
        i \in 1..Len(model.bodySegmentModel.items)}

\* C17: hasFixName(name) reports the name as present exactly when the name,
\* case-normalised, is the name of a segment of the entry collection or of
\* the exit collection; a name that is only the name of a fix of the body
\* segment is not reported; with both collections null no name is reported.
C17_HasFixNameConsultsCollectionsOnly ==
    lastCall.op = "hasFixName" =>
        /\ lastCall.value <=>
              toUpperCase(lastCall.a) \in
                  CollectionSegmentNames(model.entryCollection)
                      \cup CollectionSegmentNames(model.exitCollection)
        /\ (model.entryCollection.isNull /\ model.exitCollection.isNull) =>
              ~lastCall.value
        /\ (lastCall.a \in BodyFixNames
            /\ lastCall.a \notin CollectionSegmentNames(model.entryCollection)
            /\ lastCall.a \notin CollectionSegmentNames(model.exitCollection)) =>
              ~lastCall.value

\* C17 witness: the body fix "C" asked of a departure with runway and exit
\* segments
C17_Witness ==
    /\ lastCall.op = "hasFixName"
    /\ lastCall.a = "C"
    /\ "C" \in BodyFixNames
    /\ ~model.entryCollection.isNull
    /\ ~model.exitCollection.isNull
    /\ ~lastCall.value

\* a waypoint without what the pre-spawn pass assigns
StripWaypoint(waypoint) ==
    [waypoint EXCEPT
        !.distanceFromPreviousWaypoint = Unpopulated.distanceFromPreviousWaypoint,
        !.previousStandardWaypointName = Unpopulated.previousStandardWaypointName]

StripSegment(segment) ==
    [segment EXCEPT
        !.items = [i \in 1..Len(segment.items) |-> StripWaypoint(segment.items[i])]]

StripCollection(collection) ==
    [collection EXCEPT
        !.items = [i \in 1..Len(collection.items) |->
                      StripSegment(collection.items[i])]]

\* the model without what the pre-spawn pass assigns
Stripped(m) ==
    [m EXCEPT !.bodySegmentModel = StripSegment(@),
              !.entryCollection = StripCollection(@),
              !.exitCollection = StripCollection(@)]

PreSpawnReturned(call) ==
    call.op = "waypoints" /\ call.isPreSpawn /\ call.outcome = "ok"

\* C13 (as stated): no call other than reset() changes any field of the
\* model, of its segments or of the waypoints they hold.
C13_ReadOnlyAfterConstruction ==
    [][lastCall'.op # "reset" => model' = model]_vars

\* C13 (amended): a call other than reset() leaves every field of the model
\* and of its segments unchanged, and every field of the waypoints they hold
\* other than the distance from the previous waypoint and the previous
\* waypoint's name; those two change only in a waypoint resolution called
\* with the pre-spawn flag that returns.
C13_OnlyPreSpawnWritesAnnotations ==
    [][lastCall'.op # "reset" =>
          \/ model' = model
          \/ /\ PreSpawnReturned(lastCall')
             /\ Stripped(model') = Stripped(model)]_vars

\* C13 witness: a pre-spawn resolution has changed waypoints of the model
C13_Witness ==
    /\ ~wasReset
    /\ PreSpawnReturned(lastCall)
    /\ model # NewStandardRouteModel(standardRoute)
    /\ Stripped(model) = NewStandardRouteModel(standardRoute)

CollectionWaypoints(collection) ==
    UNION {{collection.items[i].items[j] :
               j \in 1..Len(collection.items[i].items)} :
           i \in 1..Len(collection.items)}

\* every waypoint the model holds
ModelWaypoints(m) ==
    {m.bodySegmentModel.items[i] : i \in 1..Len(m.bodySegmentModel.items)}
        \cup CollectionWaypoints(m.entryCollection)
        \cup CollectionWaypoints(m.exitCollection)

DistancePopulated(waypoint) ==
    waypoint.distanceFromPreviousWaypoint
        # Unpopulated.distanceFromPreviousWaypoint

PreviousNamePopulated(waypoint) ==
    waypoint.previousStandardWaypointName
        # Unpopulated.previousStandardWaypointName

PopulatedWaypoints(m) ==
    {w \in ModelWaypoints(m) : DistancePopulated(w) \/ PreviousNamePopulated(w)}

PopulatedTogether ==
    \A w \in ModelWaypoints(model) :
        DistancePopulated(w) <=> PreviousNamePopulated(w)

\* C14: in every state each waypoint of the model has its distance from the
\* previous waypoint and its previous waypoint's name both populated or both
\* unpopulated, and a waypoint gets populated only in a waypoint resolution
\* called with the pre-spawn flag: a resolution without the flag, a fix-list
\* resolution and a name lookup populate nothing.
C14_PopulatedTogetherOnlyByPreSpawn ==
    /\ []PopulatedTogether
    /\ [][\/ PreSpawnReturned(lastCall')
          \/ model' = model
          \/ PopulatedWaypoints(model') \subseteq PopulatedWaypoints(model)]_vars

\* C14 witness: after a pre-spawn resolution and a later lookup, some
\* waypoints are populated and some are not
C14_Witness ==
    /\ lastCall.op = "hasFixName"
    /\ PopulatedWaypoints(model) # {}
    /\ PopulatedWaypoints(model) # ModelWaypoints(model)

SquaredDistance(a, b) ==
    (a[1] - b[1]) * (a[1] - b[1]) + (a[2] - b[2]) * (a[2] - b[2])

\* the stored distance is the planar distance between the two positions
\* (in whole kilometres) converted to nautical miles
IsDistanceInNm(stored, a, b) ==
    \E km \in 0..SquaredDistance(a, b) :
        /\ km * km <= SquaredDistance(a, b)
        /\ (km + 1) * (km + 1) > SquaredDistance(a, b)
        /\ stored = nm(km)

\* C11: in the list a pre-spawn waypoint resolution returns, the first
\* waypoint has distance 0 and its own name as previous name, and every later
\* waypoint has the planar distance, in nautical miles, between the position
\* of the waypoint before it and its own position, and the name of the
\* waypoint before it as previous name.
C11_PreSpawnAnnotatesFromPredecessor ==
    PreSpawnReturned(lastCall) =>
        \A i \in 1..Len(lastCall.value) :
            LET waypoint == lastCall.value[i]
                previous == lastCall.value[IF i = 1 THEN 1 ELSE i - 1]
            IN  /\ i = 1 =>
                      /\ waypoint.distanceFromPreviousWaypoint = 0
                      /\ waypoint.previousStandardWaypointName = waypoint.name
                /\ i > 1 =>
                      /\ IsDistanceInNm(waypoint.distanceFromPreviousWaypoint,
                                        Position(previous.name),
                                        Position(waypoint.name))
                      /\ waypoint.previousStandardWaypointName = previous.name

\* C11 witness: the departure from runway 01L by exit X resolved pre-spawn
C11_Witness ==
    /\ PreSpawnReturned(lastCall)
    /\ FixNames(lastCall.value) = <<"A", "B", "C", "D">>
    /\ lastCall.value[1].distanceFromPreviousWaypoint = 0
    /\ lastCall.value[4].distanceFromPreviousWaypoint = nm(8)
    /\ lastCall.value[4].previousStandardWaypointName = "C"

====
